---- MODULE Spec2Model ----
(***************************************************************************)
(* Model of metal/contrib/slicing/synthetics/geometric_synthetics.py: the  *)
(* region classes, the slice assigner create_slices with its retry loop,   *)
(* the conflict ranker, and the seeding and output assembly of             *)
(* generate_dataset.  Coordinates and semi-axes are integers; every test   *)
(* the code makes on quotients is made here on the cross-multiplied form,  *)
(* which agrees with it for nonzero denominators.                          *)
(***************************************************************************)
EXTENDS Integers, Sequences, FiniteSets, TLC

\* create_slices and the output assembly of generate_dataset
VARIABLES pc, X, L, lf_regions, slice_source, num_slices, min_slice_size,
          centers, i, regions, Z, attempts, err, lfs_targeting_regions
\* one call of a building block (flip, a region's constructor and contains)
VARIABLES g_op, g_in, g_out
\* two runs of generate_dataset with the same seed argument
VARIABLES seed, run, stage, generators, outputs
\* create_labels and create_lfs: their arguments and locals besides X, L and
\* lf_regions (k is k_classes, m is num_lfs, l before line 227 is l_raw)
VARIABLES Y, k_classes, num_clusters, label_regions, num_lfs, unipolar,
          l_raw, props, accs, min_prop, max_prop
\* select_conflicted_points run pass by pass: its local ranked_examples
VARIABLES ranked_examples

sliceVars == <<pc, X, L, lf_regions, slice_source, num_slices, min_slice_size,
               centers, i, regions, Z, attempts, err, lfs_targeting_regions>>
geomVars == <<g_op, g_in, g_out>>
seedVars == <<seed, run, stage, generators, outputs>>
genVars == <<Y, k_classes, num_clusters, label_regions, num_lfs, unipolar,
             l_raw, props, accs, min_prop, max_prop>>
selectVars == <<ranked_examples>>

vars == <<sliceVars, geomVars, seedVars, genVars, selectVars>>

(***************************************************************************)
(* Bounds of the model and the inputs the runs are drawn from.             *)
(***************************************************************************)
\* the list regions grows with every attempt of create_slices: the retry loop
\* is followed while the next attempt keeps it within this length
MaxRegions == 4
\* the k of the binary generator (create_lfs: "only works with 2 classes")
NumClasses == 2
\* select_maxmin_points: assert num_slices == 2
MaxminSlices == 2

\* n, the number of points asked of create_points
PointCounts == {5}
\* m, the number of labeling functions
LFCounts == {2}
\* num_slices: below and at the count maxmin requires
SliceCounts == 1..MaxminSlices
\* min_slice_size: 0, the smallest positive size, and n (no attempt can pass)
MinSliceSizes(n) == {0, 1, n}
\* the four strategies of create_slices and one name it does not know
SliceSources == {"random", "lfs", "conflicts", "maxmin", "kmeans"}
\* coordinates 0..MaxCoord and semi-axes -1..MaxRadius of the regions whose
\* contains is called on its own
MaxCoord == 4
MaxRadius == 2
MaxVotes == 4
\* create_points called on its own: n in 1..MaxPoints
MaxPoints == 16
\* seeds 0..MaxSeed, and generators with states 0..RngStates-1
\* d, the number of coordinates of a point (n, d = X.shape)
Dim == 2
\* create_labels and create_lfs: shapes (n, m), class counts k and numbers
\* of clusters of the runs
GenShapes == {<<2, 2>>, <<3, 1>>}
ClassCounts == {2, 3}
ClusterCounts == {0, 2}
\* create_labels: min_a and max_a of the label ellipses
label_min_a == 0
label_max_a == 12
\* create_lfs: the radius range, and the accuracy range in percent
min_r == 1
max_r == 12
min_acc == 50
max_acc == 90
\* create_lfs: (min_prop, max_prop) in percent, a coverage range that is not
\* the accuracy range
PropRanges == {<<10, 30>>}
\* random.random(), times 100: representatives of [0, 1)
RandomDraws == {0, 60, 99}
MaxSeed == 2
RngStates == 3
\* Z_kwargs min_a, max_a (semi-axis range of the slice ellipses)
min_a == 4
max_a == 7

Abs(v) == IF v < 0 THEN 0 - v ELSE v
Range(s) == {s[j] : j \in 1..Len(s)}

(***************************************************************************)
(* Regions.                                                                *)
(***************************************************************************)
\* the outcome of a call: it raised, or it returned value
Return(v) == [raised |-> FALSE, value |-> v]
Raise == [raised |-> TRUE, value |-> FALSE]

\* flip with the two branches of its conditional expression exchanged
flip_Identity(y) ==
    IF y = 0 THEN [raised |-> TRUE, value |-> 0]
    ELSE [raised |-> FALSE, value |-> IF y = 2 THEN 2 ELSE 1]

\* flip: raises on 0, else 1 if y == 2 else 2
flip(y) ==
    IF y = 0 THEN [raised |-> TRUE, value |-> 0]
    ELSE [raised |-> FALSE, value |-> IF y = 2 THEN 1 ELSE 2]

\* Rectangle.__init__: the two asserts, then the four fields
RectangleAsserts(b, t, l, r) == b < t /\ l < r

Rectangle(b, t, l, r) == [b |-> b, t |-> t, l |-> l, r |-> r]

\* Square.__init__ without its own assert
SquareAsserts_None(rect) == TRUE

\* Square.__init__ after super().__init__: assert self.t - self.b == self.r - self.l
SquareAsserts(rect) == rect.t - rect.b = rect.r - rect.l

\* Square(b, t, l, r): the object, or the AssertionError of either __init__
Square(b, t, l, r) ==
    IF RectangleAsserts(b, t, l, r) /\ SquareAsserts(Rectangle(b, t, l, r))
    THEN Return(Rectangle(b, t, l, r))
    ELSE Raise

\* Rectangle.contains: x is tested against b and t, y against l and r
RectangleContains(rect, p) ==
    p[1] > rect.b /\ p[1] < rect.t /\ p[2] > rect.l /\ p[2] < rect.r

\* Rectangle.center, doubled: x = (l + r) / 2, y = (b + t) / 2
RectangleCenter2(rect) == <<rect.l + rect.r, rect.b + rect.t>>

Ellipse(h, k, a, b) == [h |-> h, k |-> k, a |-> a, b |-> b]

\* Circle.__init__ with h and k stored the wrong way round
Circle_SwappedCenter(h, k, r) == [h |-> k, k |-> h, a |-> r, b |-> r]

Circle(h, k, r) == [h |-> h, k |-> k, a |-> r, b |-> r]

EllipseCenter(e) == <<e.h, e.k>>

\* Ellipse.contains: (x - h)**2 / a**2 + (y - k)**2 / b**2 < 1.  With a zero
\* semi-axis the division raises ZeroDivisionError on Python numbers; on
\* numpy scalars it yields inf or nan, and the comparison is False.
EllipseContainsOutcome(e, p, numpy) ==
    IF e.a = 0 \/ e.b = 0
    THEN IF numpy THEN Return(FALSE) ELSE Raise
    ELSE Return((p[1] - e.h) * (p[1] - e.h) * (e.b * e.b)
                + (p[2] - e.k) * (p[2] - e.k) * (e.a * e.a)
                < (e.a * e.a) * (e.b * e.b))

\* x in region, for x a row of the numpy array X
EllipseContains(e, p) == EllipseContainsOutcome(e, p, TRUE).value

canvas == Rectangle(0, 10, 0, 10)

(***************************************************************************)
(* create_points, grid mode.                                               *)
(***************************************************************************)
CeilSqrt(n) == CHOOSE s \in 0..n : s * s >= n /\ (s = 0 \/ (s - 1) * (s - 1) < n)

\* np.linspace(lo, hi, num)[j], j = 0..num-1; exact when hi - lo is a multiple
\* of num - 1, as it is for the canvas and the point counts used here
Linspace(lo, hi, num, j) == IF num = 1 THEN lo ELSE lo + (j * (hi - lo)) \div (num - 1)

create_points(rect, n) ==
    LET s == CeilSqrt(n)
    IN  [q \in 1..n |-> <<Linspace(rect.l, rect.r, s, (q - 1) \div s),
                          Linspace(rect.b, rect.t, s, (q - 1) % s)>>]

(***************************************************************************)
(* assign_y: y = label for every point of X inside the region.             *)
(***************************************************************************)
\* assign_y writing only where no label was written before
assign_y_KeepFirst(Xs, Ys, region, label) ==
    [q \in 1..Len(Xs) |->
        IF EllipseContains(region, Xs[q]) /\ Ys[q] = 0 THEN label ELSE Ys[q]]

assign_y(Xs, Ys, region, label) ==
    [q \in 1..Len(Xs) |-> IF EllipseContains(region, Xs[q]) THEN label ELSE Ys[q]]

np_zeros(n) == [q \in 1..n |-> 0]

(***************************************************************************)
(* Conflict ranker.                                                        *)
(***************************************************************************)
\* votes = [int(l) for l in L[i, :] if l != 0]; counter[v] is the number of v
CountVotes(row, v) == Cardinality({j \in 1..Len(row) : row[j] = v})

\* conflict_func without the 0.01 * num_votes term
conflict_func_NoVoteTerm(row) ==
    LET num_votes == Cardinality({j \in 1..Len(row) : row[j] # 0})
    IN  50 * (num_votes - Abs(CountVotes(row, 1) - CountVotes(row, 2)))

\* conflict_func, times 100: (num_votes - |counter[1] - counter[2]|) / 2
\*                           + 0.01 * num_votes
conflict_func(row) ==
    LET num_votes == Cardinality({j \in 1..Len(row) : row[j] # 0})
    IN  50 * (num_votes - Abs(CountVotes(row, 1) - CountVotes(row, 2))) + num_votes

\* sorted(..., key=score, reverse=True) is stable: among equal scores the
\* earlier point stays first.  SortRanked inserts the points last to first,
\* and InsertRanked puts entry e (earlier than all of sorted) behind the
\* entries whose score is greater than its own and before the others.
RECURSIVE InsertRanked(_, _)
InsertRanked(e, sorted) ==
    IF sorted = <<>> THEN <<e>>
    ELSE IF Head(sorted).score > e.score
         THEN <<Head(sorted)>> \o InsertRanked(e, Tail(sorted))
         ELSE <<e>> \o sorted

RECURSIVE SortRanked(_, _)
SortRanked(entries, q) ==
    IF q > Len(entries) THEN <<>>
    ELSE InsertRanked(entries[q], SortRanked(entries, q + 1))

\* rank_by_conflict: one (score, x) pair per point, highest score first
rank_by_conflict(Xs, Ls) ==
    SortRanked([q \in 1..Len(Xs) |->
                   [score |-> conflict_func(Ls[q]), x |-> Xs[q]]], 1)

(***************************************************************************)
(* Center selection.  An outcome is [err, centers]: err = "" when the      *)
(* call returns.                                                           *)
(***************************************************************************)
Returned(c) == [err |-> "", centers |-> c]
Raised(e) == [err |-> e, centers |-> <<>>]

\* the distance test with min_dist = max_a
TooClose_MaxA(x, c, maxa) ==
    /\ maxa > 0
    /\ (x[1] - c[1]) * (x[1] - c[1]) + (x[2] - c[2]) * (x[2] - c[2]) < maxa * maxa

\* dist(x, c) < min_dist with min_dist = max_a * 1.25, on squares
TooClose(x, c, maxa) ==
    /\ maxa > 0
    /\ 16 * ((x[1] - c[1]) * (x[1] - c[1]) + (x[2] - c[2]) * (x[2] - c[2]))
          < 25 * maxa * maxa

RECURSIVE ConflictedLoop(_, _, _, _, _)
ConflictedLoop(ranked, chosen, q, ns, maxa) ==
    IF Len(chosen) >= ns THEN Returned(chosen)
    ELSE IF q > Len(ranked) THEN Raised("IndexError")
    ELSE IF \E c \in Range(chosen) : TooClose(ranked[q].x, c, maxa)
         THEN ConflictedLoop(ranked, chosen, q + 1, ns, maxa)
         ELSE ConflictedLoop(ranked, Append(chosen, ranked[q].x), q, ns, maxa)

select_conflicted_points(Xs, Ls, ns, maxa) ==
    ConflictedLoop(rank_by_conflict(Xs, Ls), <<>>, 1, ns, maxa)

\* select_maxmin_points without its assert
select_maxmin_points_NoAssert(Xs, Ls, ns) ==
    LET ranked == rank_by_conflict(Xs, Ls)
    IN  Returned(<<ranked[1].x, ranked[Len(ranked)].x>>)

select_maxmin_points(Xs, Ls, ns) ==
    IF ns # MaxminSlices THEN Raised("AssertionError")
    ELSE LET ranked == rank_by_conflict(Xs, Ls)
         IN  Returned(<<ranked[1].x, ranked[Len(ranked)].x>>)

\* np.random.choice(range(n), num_slices): with replacement
RandomCenters(Xs, ns) ==
    {Returned([q \in 1..ns |-> Xs[f[q]]]) : f \in [1..ns -> 1..Len(Xs)]}

\* np.random.choice(lf_regions, num_slices, replace=False)
LfCenters(lfr, ns) ==
    IF ns > Len(lfr) THEN {Raised("ValueError")}
    ELSE {Returned([q \in 1..ns |-> EllipseCenter(lfr[f[q]])]) :
            f \in {g \in [1..ns -> 1..Len(lfr)] :
                     \A u, v \in 1..ns : u # v => g[u] # g[v]}}

\* the dispatch with an unknown name falling through to the random strategy
SelectCenters_DefaultRandom(src, Xs, Ls, lfr, ns, maxa) ==
    IF src = "lfs" THEN LfCenters(lfr, ns)
    ELSE IF src = "conflicts" THEN {select_conflicted_points(Xs, Ls, ns, maxa)}
    ELSE IF src = "maxmin" THEN {select_maxmin_points(Xs, Ls, ns)}
    ELSE RandomCenters(Xs, ns)

\* the strategy dispatch at the head of the retry loop
SelectCenters(src, Xs, Ls, lfr, ns, maxa) ==
    IF src = "random" THEN RandomCenters(Xs, ns)
    ELSE IF src = "lfs" THEN LfCenters(lfr, ns)
    ELSE IF src = "conflicts" THEN {select_conflicted_points(Xs, Ls, ns, maxa)}
    ELSE IF src = "maxmin" THEN {select_maxmin_points(Xs, Ls, ns)}
    ELSE {Raised("Exception")}

\* np.random.uniform(low, high): representatives of [low, high)
Uniform(low, high) == {v \in {low, high - 1} : low <= v /\ v < high}

\* satisfied = len(set(Z)) == num_slices + 1 and
\*             all(z > min_slice_size for z in Counter(Z).values())
Population(Zs, s) == Cardinality({q \in 1..Len(Zs) : Zs[q] = s})

\* the test without its len(set(Z)) conjunct
Satisfied_SizeOnly(Zs, ns, mss) ==
    \A s \in Range(Zs) : Population(Zs, s) > mss

\* the test without its population conjunct
Satisfied_SetOnly(Zs, ns, mss) ==
    Cardinality(Range(Zs)) = ns + 1

\* the test with >= in place of > and the background left out
Satisfied_SlicesAtLeast(Zs, ns, mss) ==
    /\ Cardinality(Range(Zs)) = ns + 1
    /\ \A s \in Range(Zs) \ {0} : Population(Zs, s) >= mss

Satisfied(Zs, ns, mss) ==
    /\ Cardinality(Range(Zs)) = ns + 1
    /\ \A s \in Range(Zs) : Population(Zs, s) > mss

\* generate_dataset: index of the first LF region whose center equals the
\* slice region's; 0-based as list.index returns it, -1 for its ValueError
FirstLfWithCenter(lfr, region) ==
    IF \E j \in 1..Len(lfr) : EllipseCenter(lfr[j]) = EllipseCenter(region)
    THEN (CHOOSE j \in 1..Len(lfr) :
            /\ EllipseCenter(lfr[j]) = EllipseCenter(region)
            /\ \A u \in 1..(j - 1) : EllipseCenter(lfr[u]) # EllipseCenter(region)) - 1
    ELSE -1

TargetingList(lfr, regs) == [q \in 1..Len(regs) |-> FirstLfWithCenter(lfr, regs[q])]

NoList == [is_none |-> TRUE, list |-> <<>>]

(***************************************************************************)
(* Inputs of create_slices as the earlier stages of generate_dataset hand  *)
(* them over.                                                              *)
(***************************************************************************)
\* rows of L: nobody votes, every LF votes 1, the LFs alternate 1, 2
VoteRows(m) == {[j \in 1..m |-> 0],
                [j \in 1..m |-> 1],
                [j \in 1..m |-> IF j % 2 = 1 THEN 1 ELSE 2]}

VoteMatrices(n, m) == [1..n -> VoteRows(m)]

\* create_lfs: region = Circle(x, y, r) around a point of X
LfRegionLists(Xs, m) ==
    {[j \in 1..m |-> Circle(Xs[f[j]][1], Xs[f[j]][2], 1)] :
        f \in [1..m -> 1..Len(Xs)]}

\* the parts of the state a specification does not use
SlicesIdle ==
    /\ pc = "idle" /\ X = <<>> /\ L = <<>> /\ lf_regions = <<>>
    /\ slice_source = "" /\ num_slices = 0 /\ min_slice_size = 0
    /\ centers = <<>> /\ i = 0 /\ regions = <<>> /\ Z = <<>>
    /\ attempts = 0 /\ err = "" /\ lfs_targeting_regions = NoList

GeomIdle == g_op = "idle" /\ g_in = <<>> /\ g_out = <<>>

SeedIdle ==
    /\ seed = <<>> /\ run = 0 /\ stage = "idle"
    /\ generators = <<>> /\ outputs = <<>>

SelectIdle == ranked_examples = <<>>

GenIdle ==
    /\ Y = <<>> /\ k_classes = 0 /\ num_clusters = 0 /\ label_regions = <<>>
    /\ num_lfs = 0 /\ unipolar = FALSE /\ l_raw = <<>>
    /\ props = <<>> /\ accs = <<>> /\ min_prop = 0 /\ max_prop = 0

Init ==
    /\ pc = "select"
    /\ \E n \in PointCounts :
         /\ X = create_points(canvas, n)
         /\ min_slice_size \in MinSliceSizes(n)
         /\ Z = np_zeros(n)
    /\ slice_source \in SliceSources
    /\ num_slices \in SliceCounts
    /\ \E m \in LFCounts :
         /\ L \in IF slice_source \in {"conflicts", "maxmin"}
                  THEN VoteMatrices(Len(X), m)
                  ELSE {[q \in 1..Len(X) |-> [j \in 1..m |-> 0]]}
         /\ lf_regions \in IF slice_source = "lfs"
                           THEN LfRegionLists(X, m)
                           ELSE {[j \in 1..m |-> Circle(X[1][1], X[1][2], 1)]}
    /\ centers = <<>>
    /\ i = 0
    /\ regions = <<>>
    /\ attempts = 0
    /\ err = ""
    /\ lfs_targeting_regions = NoList
    /\ GeomIdle
    /\ SeedIdle
    /\ GenIdle
    /\ SelectIdle

(***************************************************************************)
(* create_slices: one pass of the while loop is Select, num_slices times   *)
(* Build, then Accept or Reject.                                           *)
(***************************************************************************)
Select ==
    /\ pc = "select"
    /\ Len(regions) + num_slices <= MaxRegions
    /\ \E o \in SelectCenters(slice_source, X, L, lf_regions, num_slices, max_a) :
         IF o.err # ""
         THEN /\ pc' = "raised"
              /\ err' = o.err
              /\ UNCHANGED <<centers, i>>
         ELSE /\ pc' = "build"
              /\ centers' = o.centers
              /\ i' = 0
              /\ err' = err
    /\ UNCHANGED <<X, L, lf_regions, slice_source, num_slices, min_slice_size,
                   regions, Z, attempts, lfs_targeting_regions>>
    /\ UNCHANGED <<geomVars, seedVars, genVars, selectVars>>

Build ==
    /\ pc = "build"
    /\ i < num_slices
    /\ \E a \in Uniform(min_a, max_a), b \in Uniform(min_a, max_a) :
         LET region == Ellipse(centers[i + 1][1], centers[i + 1][2], a, b)
         IN  /\ regions' = Append(regions, region)
             /\ Z' = assign_y(X, Z, region, i + 1)
    /\ i' = i + 1
    /\ UNCHANGED <<pc, X, L, lf_regions, slice_source, num_slices, min_slice_size,
                   centers, attempts, err, lfs_targeting_regions>>
    /\ UNCHANGED <<geomVars, seedVars, genVars, selectVars>>

Accept ==
    /\ pc = "build"
    /\ i = num_slices
    /\ Satisfied(Z, num_slices, min_slice_size)
    /\ pc' = "returned"
    /\ UNCHANGED <<X, L, lf_regions, slice_source, num_slices, min_slice_size,
                   centers, i, regions, Z, attempts, err, lfs_targeting_regions>>
    /\ UNCHANGED <<geomVars, seedVars, genVars, selectVars>>

\* attempts counts the rejected attempts; the code keeps no such counter
Reject ==
    /\ pc = "build"
    /\ i = num_slices
    /\ ~Satisfied(Z, num_slices, min_slice_size)
    /\ Z' = np_zeros(Len(X))
    /\ attempts' = attempts + 1
    /\ pc' = "select"
    /\ UNCHANGED <<X, L, lf_regions, slice_source, num_slices, min_slice_size,
                   centers, i, regions, err, lfs_targeting_regions>>
    /\ UNCHANGED <<geomVars, seedVars, genVars, selectVars>>

(***************************************************************************)
(* generate_dataset after create_slices returned: the slice-to-LF list.    *)
(***************************************************************************)
Assemble ==
    /\ pc = "returned"
    /\ IF slice_source = "lfs"
       THEN LET list == TargetingList(lf_regions, regions)
            IN  IF -1 \in Range(list)
                THEN /\ pc' = "raised"
                     /\ err' = "ValueError"
                     /\ UNCHANGED lfs_targeting_regions
                ELSE /\ pc' = "done"
                     /\ lfs_targeting_regions' = [is_none |-> FALSE, list |-> list]
                     /\ err' = err
       ELSE /\ pc' = "done"
            /\ lfs_targeting_regions' = NoList
            /\ err' = err
    /\ UNCHANGED <<X, L, lf_regions, slice_source, num_slices, min_slice_size,
                   centers, i, regions, Z, attempts>>
    /\ UNCHANGED <<geomVars, seedVars, genVars, selectVars>>

Next == Select \/ Build \/ Accept \/ Reject \/ Assemble

Spec == Init /\ [][Next]_vars

(***************************************************************************)
(* Properties of create_slices and of the output assembly.                 *)
(***************************************************************************)
HasReturned == pc \in {"returned", "done"}

KnownSources == {"random", "lfs", "conflicts", "maxmin"}

NothingBuilt == regions = <<>> /\ Z = np_zeros(Len(X)) /\ attempts = 0

\* C1: whenever create_slices has returned, the slice ids in Z are exactly
\* 0 and 1..num_slices, and every slice 1..num_slices holds at least
\* min_slice_size points, for every strategy and any number of rejections.
C1_SlicesPresentAndPopulated ==
    HasReturned =>
        /\ Range(Z) = 0..num_slices
        /\ Cardinality(Range(Z)) = num_slices + 1
        /\ \A s \in 1..num_slices : Population(Z, s) >= min_slice_size

\* a return with two slices after at least one rejected attempt
C1_Witness ==
    /\ pc = "returned"
    /\ attempts >= 1
    /\ num_slices = 2
    /\ slice_source = "conflicts"

\* C2 (as claimed): in the returned (Z, regions) every point with slice id
\* s > 0 lies inside the stored region regions[s-1] (1-based here), also
\* after rejected attempts.
C2_RoundTrip ==
    HasReturned =>
        \A q \in 1..Len(X) :
            Z[q] > 0 => /\ Z[q] <= Len(regions)
                        /\ EllipseContains(regions[Z[q]], X[q])

\* C4 (as claimed): with slice_source "lfs" the list has one entry per slice,
\* entry q the 0-based index of the first LF whose center is the center of
\* slice q's region, and the lookup never fails; otherwise the list is None.
C4_SliceToLfList ==
    /\ (pc = "raised" => err # "ValueError" \/ num_slices > Len(lf_regions))
    /\ pc = "done" =>
        IF slice_source = "lfs"
        THEN /\ ~lfs_targeting_regions.is_none
             /\ Len(lfs_targeting_regions.list) = num_slices
             /\ \A q \in 1..num_slices :
                  LET j == lfs_targeting_regions.list[q] + 1
                  IN  /\ j \in 1..Len(lf_regions)
                      /\ EllipseCenter(lf_regions[j]) = centers[q]
                      /\ \A u \in 1..(j - 1) : EllipseCenter(lf_regions[u]) # centers[q]
        ELSE lfs_targeting_regions = NoList

\* the selection step raises on these inputs (it depends on the inputs only)
SelectionRaises ==
    \E o \in SelectCenters(slice_source, X, L, lf_regions, num_slices, max_a) :
        o.err # ""

\* C5: create_slices returns only from an attempt that passed the acceptance
\* test, and when min_slice_size >= n and the selection step does not raise
\* it neither returns nor raises: it is always inside the retry loop.
C5_NoReturnWithoutAcceptance ==
    /\ HasReturned => i = num_slices /\ Cardinality(Range(Z)) = num_slices + 1
                      /\ \A s \in Range(Z) : Population(Z, s) > min_slice_size
    /\ (min_slice_size >= Len(X) /\ pc \notin {"select", "build"}) => SelectionRaises

\* the loop has rejected twice and is about to try again
C5_Witness ==
    /\ min_slice_size >= Len(X)
    /\ ~SelectionRaises
    /\ attempts >= 2
    /\ pc = "build"

\* C6: an unrecognized slice_source raises in the first pass of the loop,
\* before any region is built or slice id assigned; nothing is returned and
\* nothing is retried.
C6_UnrecognizedSourceRaises ==
    slice_source \notin KnownSources =>
        /\ pc \in {"select", "raised"}
        /\ pc = "raised" => err = "Exception"
        /\ NothingBuilt

C6_Witness ==
    /\ slice_source \notin KnownSources
    /\ pc = "raised"
    /\ err = "Exception"

\* C7: under "maxmin" a num_slices other than 2 raises AssertionError in the
\* first pass with no slice output; with num_slices = 2 the centers are the
\* first and the last entry of the conflict ranking, a point of highest and
\* a point of lowest score.
C7_MaxminNeedsTwoSlices ==
    slice_source = "maxmin" =>
        IF num_slices # 2
        THEN /\ pc \in {"select", "raised"}
             /\ pc = "raised" => err = "AssertionError"
             /\ NothingBuilt
        ELSE pc # "select" =>
             LET ranked == rank_by_conflict(X, L)
             IN  /\ pc # "raised"
                 /\ centers = <<ranked[1].x, ranked[Len(ranked)].x>>
                 /\ \E p, q \in 1..Len(X) :
                      /\ centers = <<X[p], X[q]>>
                      /\ \A r \in 1..Len(X) :
                           /\ conflict_func(L[r]) <= conflict_func(L[p])
                           /\ conflict_func(L[r]) >= conflict_func(L[q])

C7_Witness ==
    /\ slice_source = "maxmin"
    /\ num_slices # 2
    /\ pc = "raised"
    /\ err = "AssertionError"

\* the acceptance condition the claim states: num_slices + 1 distinct ids
\* and at least min_slice_size points in every slice 1..num_slices
C13_ClaimedAcceptance ==
    /\ Cardinality(Range(Z)) = num_slices + 1
    /\ \A s \in 1..num_slices : Population(Z, s) >= min_slice_size

\* C13 (as claimed): an attempt whose num_slices regions are built is
\* accepted (create_slices returns) exactly when the id set has
\* num_slices + 1 values and every slice 1..num_slices has at least
\* min_slice_size points, whatever the population of the background.
C13_AcceptedExactlyWhen ==
    [][(pc = "build" /\ i = num_slices) =>
          (pc' = "returned" <=> C13_ClaimedAcceptance)]_vars

\* the ellipse built for slice s in the latest attempt
AttemptRegion(s) == regions[Len(regions) - num_slices + s]

\* C14: in the returned array Z[q] is the largest s in 1..num_slices whose
\* ellipse of the accepted attempt contains point q, and 0 if none does; a
\* rejected attempt leaves no id behind (Z is all 0 when the next attempt
\* starts).
C14_LastWriteWins ==
    /\ HasReturned =>
         \A q \in 1..Len(X) :
            LET holders == {s \in 1..num_slices : EllipseContains(AttemptRegion(s), X[q])}
            IN  IF holders = {} THEN Z[q] = 0
                ELSE /\ Z[q] \in holders
                     /\ \A s \in holders : s <= Z[q]
    /\ pc = "select" => Z = np_zeros(Len(X))

\* a return after a rejected attempt in which a point lies in both ellipses
\* and carries the id of the second
C14_Witness ==
    /\ pc = "returned"
    /\ attempts >= 1
    /\ num_slices = 2
    /\ \E q \in 1..Len(X) :
         /\ EllipseContains(AttemptRegion(1), X[q])
         /\ EllipseContains(AttemptRegion(2), X[q])
         /\ Z[q] = 2

\* C15 (as claimed): under "random" the num_slices centers of an attempt are
\* distinct points of X.
C15_RandomCentersDistinct ==
    (slice_source = "random" /\ pc = "build") =>
        /\ \A u \in 1..num_slices : centers[u] \in Range(X)
        /\ \A u, v \in 1..num_slices : u # v => centers[u] # centers[v]

\* squared distance of two points
C16_Dist2(u, v) == (u[1] - v[1]) * (u[1] - v[1]) + (u[2] - v[2]) * (u[2] - v[2])

\* d >= 1.25 * max_a on squares: 16 d^2 >= 25 max_a^2
C16_FarEnough(u, v) == 16 * C16_Dist2(u, v) >= 25 * max_a * max_a

\* C16: under "conflicts" (max_a > 0) the selection, when it returns, gives
\* num_slices centers pairwise at distance >= 1.25 * max_a, taken in
\* descending rank order, and every point ranked above the last center is a
\* center or closer than min_dist to a center ranked before it.
C16_ConflictsGreedy ==
    (slice_source = "conflicts" /\ pc \in {"build", "returned", "done"}) =>
        LET ranked == rank_by_conflict(X, L)
            pos(u) == CHOOSE j \in 1..Len(ranked) : ranked[j].x = centers[u]
        IN  /\ max_a > 0
            /\ Len(centers) = num_slices
            /\ \A u \in 1..num_slices : \E j \in 1..Len(ranked) : ranked[j].x = centers[u]
            /\ \A u, v \in 1..num_slices : u # v => C16_FarEnough(centers[u], centers[v])
            /\ \A u, v \in 1..num_slices : u < v => pos(u) < pos(v)
            /\ \A j \in 1..pos(num_slices) :
                  \/ \E u \in 1..num_slices : pos(u) = j
                  \/ \E u \in 1..num_slices :
                        /\ pos(u) < j
                        /\ ~C16_FarEnough(ranked[j].x, centers[u])

\* two centers with a higher-ranked point skipped between them
C16_Witness ==
    /\ slice_source = "conflicts"
    /\ pc = "build"
    /\ num_slices = 2
    /\ LET ranked == rank_by_conflict(X, L)
       IN  /\ centers[1] = ranked[1].x
           /\ centers[2] # ranked[2].x
           /\ ~C16_FarEnough(ranked[2].x, centers[1])

\* C22: whenever create_slices has returned, the background id 0 and every
\* slice 1..num_slices each hold strictly more than min_slice_size points,
\* hence n > (num_slices + 1) * min_slice_size.
C22_BackgroundCounted ==
    HasReturned =>
        /\ \A s \in 0..num_slices : Population(Z, s) > min_slice_size
        /\ Len(X) > (num_slices + 1) * min_slice_size

\* a return with a positive min_slice_size after a rejected attempt: the
\* background is just above the minimum
C22_Witness ==
    /\ pc = "returned"
    /\ min_slice_size = 1
    /\ attempts >= 1
    /\ Population(Z, 0) = 2

(***************************************************************************)
(* The building blocks called on their own: one call per behaviour, the    *)
(* arguments in g_in and the outcome in g_out.                             *)
(***************************************************************************)
Coords == 0..MaxCoord
Radii == (0 - 1)..MaxRadius
GeomPoints == Coords \X Coords

\* bounding boxes handed to create_points: sides 12 and 24, which every
\* grid step count used here divides, so that Linspace is exact
PointRects == {Rectangle(0, 12, 0, 12), Rectangle(0, 12, 12, 36)}

\* shapes (n, m) of the vote matrices handed to rank_by_conflict: two points
\* with MaxVotes votes each, three points with one vote fewer
RankShapes == {<<2, MaxVotes>>, <<3, MaxVotes - 1>>}

GeomInit == SlicesIdle /\ SeedIdle /\ GenIdle /\ SelectIdle /\ GeomIdle

CallFlip ==
    /\ g_op = "idle"
    /\ \E y \in 0..NumClasses :
         /\ g_in' = [y |-> y]
         /\ g_out' = flip(y)
    /\ g_op' = "flip"
    /\ UNCHANGED <<sliceVars, seedVars, genVars, selectVars>>

\* flip applied to the label flip returned
CallFlipAgain ==
    /\ g_op = "flip"
    /\ ~g_out.raised
    /\ g_out' = flip(g_out.value)
    /\ g_op' = "flip_flip"
    /\ UNCHANGED <<g_in, sliceVars, seedVars, genVars, selectVars>>

\* Rectangle(b, t, l, r).contains(p)
CallRectangleContains ==
    /\ g_op = "idle"
    /\ \E b \in Coords, t \in Coords, l \in Coords, r \in Coords, p \in GeomPoints :
         /\ g_in' = [b |-> b, t |-> t, l |-> l, r |-> r, p |-> p]
         /\ IF RectangleAsserts(b, t, l, r)
            THEN /\ g_op' = "Rectangle.contains"
                 /\ g_out' = Return(RectangleContains(Rectangle(b, t, l, r), p))
            ELSE /\ g_op' = "Rectangle"
                 /\ g_out' = Raise
    /\ UNCHANGED <<sliceVars, seedVars, genVars, selectVars>>

\* Ellipse(h, k, a, b).contains(p)
CallEllipseContains ==
    /\ g_op = "idle"
    /\ \E h \in Coords, k \in Coords, a \in Radii, b \in Radii,
          p \in GeomPoints, numpy \in BOOLEAN :
         /\ g_in' = [h |-> h, k |-> k, a |-> a, b |-> b, p |-> p, numpy |-> numpy]
         /\ g_out' = EllipseContainsOutcome(Ellipse(h, k, a, b), p, numpy)
    /\ g_op' = "Ellipse.contains"
    /\ UNCHANGED <<sliceVars, seedVars, genVars, selectVars>>

\* Circle(h, k, r).contains(p)
CallCircleContains ==
    /\ g_op = "idle"
    /\ \E h \in Coords, k \in Coords, r \in Radii, p \in GeomPoints, numpy \in BOOLEAN :
         /\ g_in' = [h |-> h, k |-> k, r |-> r, p |-> p, numpy |-> numpy]
         /\ g_out' = EllipseContainsOutcome(Circle(h, k, r), p, numpy)
    /\ g_op' = "Circle.contains"
    /\ UNCHANGED <<sliceVars, seedVars, genVars, selectVars>>

\* Square(b, t, l, r)
CallSquare ==
    /\ g_op = "idle"
    /\ \E b \in Coords, t \in Coords, l \in Coords, r \in Coords :
         /\ g_in' = [b |-> b, t |-> t, l |-> l, r |-> r]
         /\ g_out' = Square(b, t, l, r)
    /\ g_op' = "Square"
    /\ UNCHANGED <<sliceVars, seedVars, genVars, selectVars>>

\* create_points(rect, n, random=False).  s = np.ceil(np.sqrt(n)) is a
\* numpy.float64 and is passed as num to np.linspace: numpy before 1.18
\* truncates it to an integer (with a DeprecationWarning from 1.12 on),
\* numpy 1.18 and later raise TypeError.  The repository pins no version.
CallCreatePoints ==
    /\ g_op = "idle"
    /\ \E rect \in PointRects, n \in 1..MaxPoints, num_truncated \in BOOLEAN :
         /\ g_in' = [rect |-> rect, n |-> n, num_truncated |-> num_truncated]
         /\ g_out' = IF num_truncated THEN Return(create_points(rect, n)) ELSE Raise
    /\ g_op' = "create_points"
    /\ UNCHANGED <<sliceVars, seedVars, genVars, selectVars>>

\* rank_by_conflict(X, L) on the first n grid points and an n x m vote matrix
CallRankByConflict ==
    /\ g_op = "idle"
    /\ \E shape \in RankShapes :
         \E Ls \in [1..shape[1] -> [1..shape[2] -> 0..NumClasses]] :
            LET Xs == create_points(canvas, shape[1])
            IN  /\ g_in' = [X |-> Xs, L |-> Ls]
                /\ g_out' = Return(rank_by_conflict(Xs, Ls))
    /\ g_op' = "rank_by_conflict"
    /\ UNCHANGED <<sliceVars, seedVars, genVars, selectVars>>

GeomNext ==
    \/ CallFlip
    \/ CallFlipAgain
    \/ CallRectangleContains
    \/ CallSquare
    \/ CallEllipseContains
    \/ CallCircleContains
    \/ CallRankByConflict
    \/ CallCreatePoints

SpecGeom == GeomInit /\ [][GeomNext]_vars

\* C8: flip(1) = 2 and flip(2) = 1, so flip(flip(y)) = y for y in {1, 2};
\* flip(0) raises and returns nothing.
C8_FlipInvolution ==
    /\ g_op = "flip" =>
         /\ g_in.y = 0 => g_out.raised
         /\ g_in.y = 1 => g_out = [raised |-> FALSE, value |-> 2]
         /\ g_in.y = 2 => g_out = [raised |-> FALSE, value |-> 1]
    /\ (g_op = "flip_flip" /\ g_in.y \in {1, 2}) =>
         g_out = [raised |-> FALSE, value |-> g_in.y]

C8_Witness ==
    /\ g_op = "flip_flip"
    /\ g_in.y = 1
    /\ g_out = [raised |-> FALSE, value |-> 1]

\* C9 (as claimed): a constructed Rectangle(b, t, l, r) contains (x, y) iff
\* l < x < r and b < y < t, the axes center() and create_points use; points
\* on a boundary are outside.
C9_RectangleContains ==
    g_op = "Rectangle.contains" =>
        /\ ~g_out.raised
        /\ g_out.value <=> (/\ g_in.l < g_in.p[1] /\ g_in.p[1] < g_in.r
                            /\ g_in.b < g_in.p[2] /\ g_in.p[2] < g_in.t)

\* C10 (as claimed): Circle(h, k, r) contains its center (h, k) for every r,
\* and its contains agrees with that of Ellipse(h, k, r, r) at every point.
C10_CircleContainsCenter ==
    g_op = "Circle.contains" =>
        /\ g_in.p = <<g_in.h, g_in.k>> => g_out = Return(TRUE)
        /\ g_out = EllipseContainsOutcome(Ellipse(g_in.h, g_in.k, g_in.r, g_in.r),
                                          g_in.p, g_in.numpy)

\* C10 (amended): Circle(h, k, r) contains its center (h, k) for every
\* r # 0, and for every r its contains agrees with that of
\* Ellipse(h, k, r, r) at every point (for r = 0 both answer False on numpy
\* coordinates and both raise ZeroDivisionError on Python numbers).
C10_CircleContainsCenterNonzero ==
    g_op = "Circle.contains" =>
        /\ (g_in.r # 0 /\ g_in.p = <<g_in.h, g_in.k>>) => g_out = Return(TRUE)
        /\ g_out = EllipseContainsOutcome(Ellipse(g_in.h, g_in.k, g_in.r, g_in.r),
                                          g_in.p, g_in.numpy)

C10_Witness ==
    /\ g_op = "Circle.contains"
    /\ g_in.r = 2
    /\ g_in.h # g_in.k
    /\ g_in.p = <<g_in.h, g_in.k>>
    /\ g_out = Return(TRUE)

\* C11: Rectangle(b, t, l, r) raises at construction unless b < t and l < r,
\* Square(b, t, l, r) raises unless in addition t - b = r - l, and an object
\* that was constructed satisfies these.
C11_ConstructionAsserts ==
    /\ g_op = "Rectangle" =>
         /\ g_out.raised
         /\ ~(g_in.b < g_in.t /\ g_in.l < g_in.r)
    /\ g_op = "Rectangle.contains" => (g_in.b < g_in.t /\ g_in.l < g_in.r)
    /\ g_op = "Square" =>
         /\ g_out.raised <=> ~(/\ g_in.b < g_in.t
                               /\ g_in.l < g_in.r
                               /\ g_in.t - g_in.b = g_in.r - g_in.l)
         /\ ~g_out.raised =>
               /\ g_out.value = [b |-> g_in.b, t |-> g_in.t, l |-> g_in.l, r |-> g_in.r]
               /\ g_out.value.b < g_out.value.t
               /\ g_out.value.l < g_out.value.r
               /\ g_out.value.t - g_out.value.b = g_out.value.r - g_out.value.l

\* a well-formed rectangle that is not a square is refused by Square
C11_Witness ==
    /\ g_op = "Square"
    /\ g_in.b < g_in.t
    /\ g_in.l < g_in.r
    /\ g_in.t - g_in.b # g_in.r - g_in.l
    /\ g_out.raised

\* the score the claim gives, times 100, for the votes of one row
C17_Score(row) ==
    LET V == {j \in 1..Len(row) : row[j] # 0}
        ones == Cardinality({j \in V : row[j] = 1})
        twos == Cardinality({j \in V : row[j] = 2})
    IN  50 * (Cardinality(V) - (IF ones >= twos THEN ones - twos ELSE twos - ones))
        + Cardinality(V)

\* C17: rank_by_conflict returns one (score, point) pair per point, in
\* non-increasing order of score, the score of a point with non-abstaining
\* votes V being (|V| - |#1(V) - #2(V)|)/2 + 0.01*|V|: 2.04 for votes
\* [1,2,1,2], 0.04 for [1,1,1,1] and 0 for no votes, so the first point is
\* ranked above the second.
C17_RankByConflict ==
    g_op = "rank_by_conflict" =>
        LET ranked == g_out.value
            n == Len(g_in.X)
        IN  /\ ~g_out.raised
            /\ Len(ranked) = n
            /\ \A q \in 1..n :
                  \E j \in 1..n :
                     /\ ranked[j] = [score |-> C17_Score(g_in.L[q]), x |-> g_in.X[q]]
                     /\ \A j2 \in 1..n : ranked[j2].x = g_in.X[q] => j2 = j
            /\ \A j \in 1..(n - 1) : ranked[j].score >= ranked[j + 1].score
            /\ \A q \in 1..n :
                  /\ g_in.L[q] = <<1, 2, 1, 2>> => C17_Score(g_in.L[q]) = 204
                  /\ g_in.L[q] = <<1, 1, 1, 1>> => C17_Score(g_in.L[q]) = 4
                  /\ (\A j \in 1..Len(g_in.L[q]) : g_in.L[q][j] = 0)
                        => C17_Score(g_in.L[q]) = 0
            /\ (n = 2 /\ g_in.L = <<(<<1, 1, 1, 1>>), (<<1, 2, 1, 2>>)>>) =>
                  ranked = <<[score |-> 204, x |-> g_in.X[2]],
                             [score |-> 4, x |-> g_in.X[1]]>>

\* the point voted [1,2,1,2] comes second in X and first in the ranking
C17_Witness ==
    /\ g_op = "rank_by_conflict"
    /\ g_in.L = <<(<<1, 1, 1, 1>>), (<<1, 2, 1, 2>>)>>
    /\ g_out.value[1] = [score |-> 204, x |-> g_in.X[2]]
    /\ g_out.value[2] = [score |-> 4, x |-> g_in.X[1]]

\* C21 (as claimed): grid mode of create_points returns exactly n points for
\* every n >= 1; with s = ceil(sqrt(n)), point number q (0-based) sits at grid
\* index q div s along x and q mod s along y of the s x s grid that spans the
\* bounding box from edge to edge, and lies within the closed bounding box.
C21_GridPoints ==
    g_op = "create_points" =>
        LET n == g_in.n
            rect == g_in.rect
            s == CHOOSE c \in 1..n : c * c >= n /\ (c - 1) * (c - 1) < n
            pts == g_out.value
        IN  /\ ~g_out.raised
            /\ Len(pts) = n
            /\ \A q \in 0..(n - 1) :
                  LET x == pts[q + 1][1]
                      y == pts[q + 1][2]
                  IN  /\ IF s = 1 THEN x = rect.l /\ y = rect.b
                         ELSE /\ (s - 1) * (x - rect.l) = (q \div s) * (rect.r - rect.l)
                              /\ (s - 1) * (y - rect.b) = (q % s) * (rect.t - rect.b)
                      /\ rect.l <= x /\ x <= rect.r
                      /\ rect.b <= y /\ y <= rect.t

(***************************************************************************)
(* Seeding.  generate_dataset draws from two of the three process-wide     *)
(* generators it seeds: numpy's (points, labels, LF regions, slices) and   *)
(* Python's random (the votes of assign_l).  A generator is a state; a    *)
(* draw returns the state and steps it.  Two runs with the same seed       *)
(* argument start from unrelated generator states.                         *)
(***************************************************************************)
NoSeed == [is_none |-> TRUE, value |-> 0]
Seeds == {NoSeed} \cup {[is_none |-> FALSE, value |-> v] : v \in 0..MaxSeed}

\* "if seed:" is the truth value of the argument: None and 0 are false
Truthy(sd) == ~sd.is_none /\ sd.value # 0

GeneratorStates == [random : 0..(RngStates - 1),
                    np : 0..(RngStates - 1),
                    torch : 0..(RngStates - 1)]

\* random.seed(v), np.random.seed(v), torch.manual_seed(v)
Seeded(v) == [random |-> v % RngStates, np |-> v % RngStates, torch |-> v % RngStates]

NextDraw(st) == (st + 1) % RngStates

NoOutputs == [L |-> <<>>, Y |-> <<>>, Z |-> <<>>]

SeedInit ==
    /\ SlicesIdle
    /\ GeomIdle
    /\ GenIdle
    /\ SelectIdle
    /\ seed \in Seeds
    /\ run = 1
    /\ stage = "seed"
    /\ generators \in [1..2 -> GeneratorStates]
    /\ outputs = [r \in 1..2 |-> NoOutputs]

\* lines 33-37
SeedGenerators ==
    /\ stage = "seed"
    /\ generators' = IF Truthy(seed)
                     THEN [generators EXCEPT ![run] = Seeded(seed.value)]
                     ELSE generators
    /\ stage' = "labels"
    /\ UNCHANGED <<seed, run, outputs, sliceVars, geomVars, genVars, selectVars>>

\* create_labels: the cluster centers and semi-axes come from np.random
CreateLabels ==
    /\ stage = "labels"
    /\ outputs' = [outputs EXCEPT ![run].Y = <<generators[run].np>>]
    /\ generators' = [generators EXCEPT ![run].np = NextDraw(@)]
    /\ stage' = "lfs"
    /\ UNCHANGED <<seed, run, sliceVars, geomVars, genVars, selectVars>>

\* create_lfs: regions, props and accs from np.random, the votes of assign_l
\* from random.random()
CreateLfs ==
    /\ stage = "lfs"
    /\ outputs' = [outputs EXCEPT ![run].L = <<generators[run].np, generators[run].random>>]
    /\ generators' = [generators EXCEPT ![run].np = NextDraw(@),
                                        ![run].random = NextDraw(@)]
    /\ stage' = "slices"
    /\ UNCHANGED <<seed, run, sliceVars, geomVars, genVars, selectVars>>

\* create_slices: centers and semi-axes from np.random
CreateSlices ==
    /\ stage = "slices"
    /\ outputs' = [outputs EXCEPT ![run].Z = <<generators[run].np>>]
    /\ generators' = [generators EXCEPT ![run].np = NextDraw(@)]
    /\ stage' = "return"
    /\ UNCHANGED <<seed, run, sliceVars, geomVars, genVars, selectVars>>

\* the first run returns and the second starts; the second returns
ReturnDataset ==
    /\ stage = "return"
    /\ IF run = 1
       THEN run' = 2 /\ stage' = "seed"
       ELSE run' = run /\ stage' = "done"
    /\ UNCHANGED <<seed, generators, outputs, sliceVars, geomVars, genVars, selectVars>>

SeedNext ==
    \/ SeedGenerators
    \/ CreateLabels
    \/ CreateLfs
    \/ CreateSlices
    \/ ReturnDataset

SpecSeed == SeedInit /\ [][SeedNext]_vars

\* C3 (as claimed): for every seed value passed, two runs with that seed and
\* the same parameters return the same votes, labels and slices, whatever
\* the generators' states were before each run.
C3_SameSeedSameDataset ==
    (stage = "done" /\ ~seed.is_none) => outputs[1] = outputs[2]

(***************************************************************************)
(* create_labels and create_lfs, called one after the other as             *)
(* generate_dataset calls them.  pc, X, L, lf_regions, i and err are those *)
(* of the run; i is the loop variable of either function.                  *)
(***************************************************************************)
\* np.full(n, v) filled with zeros
np_full_Zeros(n, v) == [q \in 1..n |-> 0]

np_full(n, v) == [q \in 1..n |-> v]

\* np.random.uniform(low, high, size) one entry short
UniformVector_Short(low, high, size) == [1..(size - 1) -> Uniform(low, high)]

\* np.random.uniform(low, high, size)
UniformVector(low, high, size) == [1..size -> Uniform(low, high)]

\* one pass of assign_l's loop body after "if x in region": the vote for true
\* label y given the two draws of random.random() (y - 1 indexes from 0)
Vote(y, prs, acs, u1, u2) ==
    IF u1 < prs[y]
    THEN IF u2 < acs[y] THEN y ELSE flip(y).value
    ELSE 0

\* assign_l voting at every point, inside the region or not
assign_l_Everywhere(Xs, Ys, region, prs, acs) ==
    IF \E q \in 1..Len(Xs) : Ys[q] > Len(prs)
    THEN {Raise}
    ELSE {Return(col) : col \in
            {c \in [1..Len(Xs) -> 0..NumClasses] :
               \A q \in 1..Len(Xs) :
                  \E u1 \in RandomDraws, u2 \in RandomDraws :
                     c[q] = Vote(Ys[q], prs, acs, u1, u2)}}

\* assign_l: the columns it can return, or the IndexError of props[y - 1]
\* when a point of the region has a label above len(props)
assign_l(Xs, Ys, region, prs, acs) ==
    IF \E q \in 1..Len(Xs) : EllipseContains(region, Xs[q]) /\ Ys[q] > Len(prs)
    THEN {Raise}
    ELSE {Return(col) : col \in
            {c \in [1..Len(Xs) -> 0..NumClasses] :
               \A q \in 1..Len(Xs) :
                  IF EllipseContains(region, Xs[q])
                  THEN \E u1 \in RandomDraws, u2 \in RandomDraws :
                          c[q] = Vote(Ys[q], prs, acs, u1, u2)
                  ELSE c[q] = 0}}

\* the unipolar step leaving the column as it is
ApplyPolarity_KeepAll(col, polarity) == col

\* l[l != polarity] = 0
ApplyPolarity(col, polarity) ==
    [q \in 1..Len(col) |-> IF col[q] # polarity THEN 0 ELSE col[q]]

\* np.array(L).transpose() for the list of m columns of length n
Transpose(cols, n) == [q \in 1..n |-> [j \in 1..Len(cols) |-> cols[j][q]]]

GenInit ==
    /\ pc = "create_labels"
    /\ \E shape \in GenShapes :
         /\ X = create_points(canvas, shape[1])
         /\ num_lfs = shape[2]
    /\ k_classes \in ClassCounts
    /\ num_clusters \in ClusterCounts
    /\ unipolar \in BOOLEAN
    /\ \E range \in PropRanges : min_prop = range[1] /\ max_prop = range[2]
    /\ Y = np_full(Len(X), k_classes)
    /\ label_regions = <<>>
    /\ i = 0
    /\ L = <<>> /\ lf_regions = <<>>
    /\ l_raw = <<>> /\ props = <<>> /\ accs = <<>>
    /\ err = ""
    /\ slice_source = "" /\ num_slices = 0 /\ min_slice_size = 0
    /\ centers = <<>> /\ regions = <<>> /\ Z = <<>>
    /\ attempts = 0 /\ lfs_targeting_regions = NoList
    /\ GeomIdle
    /\ SeedIdle
    /\ SelectIdle

\* what no step of the two functions touches
GenFrame ==
    UNCHANGED <<X, k_classes, num_clusters, num_lfs, unipolar, min_prop, max_prop,
                slice_source, num_slices, min_slice_size, centers, regions, Z,
                attempts, lfs_targeting_regions, geomVars, seedVars, selectVars>>

\* create_labels, one pass of the loop over range(num_clusters)
LabelCluster ==
    /\ pc = "create_labels"
    /\ i < num_clusters
    /\ \E c \in 1..Len(X),
          a \in Uniform(label_min_a, label_max_a),
          b \in Uniform(label_min_a, label_max_a) :
         LET region == Ellipse(X[c][1], X[c][2], a, b)
         IN  /\ label_regions' = Append(label_regions, region)
             /\ Y' = assign_y(X, Y, region, 1)
    /\ i' = i + 1
    /\ UNCHANGED <<pc, L, lf_regions, l_raw, props, accs, err>>
    /\ GenFrame

\* return Y, regions
ReturnLabels ==
    /\ pc = "create_labels"
    /\ i = num_clusters
    /\ pc' = "labels_returned"
    /\ UNCHANGED <<Y, label_regions, i, L, lf_regions, l_raw, props, accs, err>>
    /\ GenFrame

\* generate_dataset calls create_lfs(X, Y, m, unipolar, ...); it never reads
\* label_regions again
CallCreateLfs ==
    /\ pc = "labels_returned"
    /\ pc' = "create_lfs"
    /\ i' = 0
    /\ L' = <<>>
    /\ lf_regions' = <<>>
    /\ label_regions' = <<>>
    /\ UNCHANGED <<Y, l_raw, props, accs, err>>
    /\ GenFrame

\* create_lfs, one pass of the loop over range(m): the region, props and
\* accs are drawn, assign_l votes, the unipolar step (which alone draws a
\* polarity) filters, and the column and the region are appended.  l_raw is
\* l as assign_l returned it.
LfIteration ==
    /\ pc = "create_lfs"
    /\ i < num_lfs
    /\ \E c \in 1..Len(X),
          r \in Uniform(min_r, max_r),
          prs \in UniformVector(min_acc, max_acc, Dim),
          acs \in UniformVector(min_acc, max_acc, Dim),
          polarity \in IF unipolar THEN 1..NumClasses ELSE {0} :
         LET region == Circle(X[c][1], X[c][2], r)
         IN  \E o \in assign_l(X, Y, region, prs, acs) :
                /\ props' = prs
                /\ accs' = acs
                /\ IF o.raised
                   THEN /\ pc' = "raised"
                        /\ err' = "IndexError"
                        /\ UNCHANGED <<L, lf_regions, l_raw, i>>
                   ELSE /\ l_raw' = o.value
                        /\ L' = Append(L, IF unipolar
                                          THEN ApplyPolarity(o.value, polarity)
                                          ELSE o.value)
                        /\ lf_regions' = Append(lf_regions, region)
                        /\ i' = i + 1
                        /\ UNCHANGED <<pc, err>>
    /\ UNCHANGED <<Y, label_regions>>
    /\ GenFrame

\* L = np.array(L).transpose(); return L, regions_hist.  The locals of the
\* call (props, accs, l) end with it.
ReturnLfs ==
    /\ pc = "create_lfs"
    /\ i = num_lfs
    /\ L' = Transpose(L, Len(X))
    /\ pc' = "lfs_returned"
    /\ l_raw' = <<>> /\ props' = <<>> /\ accs' = <<>>
    /\ UNCHANGED <<Y, label_regions, i, lf_regions, err>>
    /\ GenFrame

GenNext ==
    \/ LabelCluster
    \/ ReturnLabels
    \/ CallCreateLfs
    \/ LfIteration
    \/ ReturnLfs

SpecGen == GenInit /\ [][GenNext]_vars

(***************************************************************************)
(* Properties of create_labels and create_lfs.                             *)
(***************************************************************************)
\* C18: create_labels returns exactly num_clusters ellipses and labels in
\* which a point has label 1 iff at least one of the ellipses contains it
\* and label k otherwise (so a later cluster never undoes a label 1); with
\* num_clusters >= 1 and positive semi-axes the point at every cluster's
\* center has label 1.  The labels obey the same rule for the ellipses built
\* so far in every pass of the loop.
C18_LabelsFromEllipses ==
    pc \in {"create_labels", "labels_returned"} =>
        /\ pc = "labels_returned" => Len(label_regions) = num_clusters
        /\ Len(Y) = Len(X)
        /\ \A q \in 1..Len(X) :
              IF \E j \in 1..Len(label_regions) : EllipseContains(label_regions[j], X[q])
              THEN Y[q] = 1
              ELSE Y[q] = k_classes /\ Y[q] # 1
        /\ (/\ pc = "labels_returned"
            /\ num_clusters >= 1
            /\ \A j \in 1..Len(label_regions) :
                  label_regions[j].a > 0 /\ label_regions[j].b > 0)
             => \A j \in 1..Len(label_regions) :
                   \E q \in 1..Len(X) :
                      X[q] = EllipseCenter(label_regions[j]) /\ Y[q] = 1

\* two clusters: a point labelled 1 by the first lies outside the second,
\* and another point keeps the background label k
C18_Witness ==
    /\ pc = "labels_returned"
    /\ num_clusters = 2
    /\ \E q \in 1..Len(X) :
         /\ EllipseContains(label_regions[1], X[q])
         /\ ~EllipseContains(label_regions[2], X[q])
         /\ Y[q] = 1
    /\ \E q \in 1..Len(X) : Y[q] = k_classes

\* C12: for k = 2 the matrix create_lfs returns is n x m; entry (q, j) is 0
\* when point q lies outside the circle of LF j and otherwise is 0, the true
\* label Y[q] or the flipped label 3 - Y[q]; every entry is in {0, 1, 2}.
C12_VoteRule ==
    (pc = "lfs_returned" /\ k_classes = 2) =>
        /\ Len(L) = Len(X)
        /\ Len(lf_regions) = num_lfs
        /\ \A q \in 1..Len(X) :
              /\ Len(L[q]) = num_lfs
              /\ \A j \in 1..num_lfs :
                    /\ L[q][j] \in {0, 1, 2}
                    /\ IF EllipseContains(lf_regions[j], X[q])
                       THEN L[q][j] \in {0, Y[q], 3 - Y[q]}
                       ELSE L[q][j] = 0

\* two LFs: a flipped vote inside a circle, a true vote, and a point outside
\* a circle
C12_Witness ==
    /\ pc = "lfs_returned"
    /\ k_classes = 2
    /\ num_lfs = 2
    /\ \E q \in 1..Len(X), j \in 1..num_lfs :
         EllipseContains(lf_regions[j], X[q]) /\ L[q][j] = 3 - Y[q]
    /\ \E q \in 1..Len(X), j \in 1..num_lfs :
         EllipseContains(lf_regions[j], X[q]) /\ L[q][j] = Y[q]
    /\ \E q \in 1..Len(X), j \in 1..num_lfs :
         ~EllipseContains(lf_regions[j], X[q]) /\ L[q][j] = 0

\* C19: in unipolar mode the column of every LF has one polarity p in
\* {1, 2}: it keeps the votes of assign_l that equal p and holds 0 everywhere
\* else, so the other polarity is replaced by 0 and no abstain becomes a
\* vote; every column of the returned matrix has a single polarity.
C19_UnipolarColumns ==
    unipolar =>
        /\ (pc = "create_lfs" /\ i >= 1) =>
              \E p \in {1, 2} :
                 \A q \in 1..Len(X) : L[i][q] = (IF l_raw[q] = p THEN p ELSE 0)
        /\ pc = "lfs_returned" =>
              \A j \in 1..num_lfs :
                 \E p \in {1, 2} : \A q \in 1..Len(X) : L[q][j] \in {0, p}

\* assign_l voted both 1 and 2 and the column kept the votes of one polarity
C19_Witness ==
    /\ unipolar
    /\ pc = "create_lfs"
    /\ i >= 1
    /\ \E q \in 1..Len(X) : l_raw[q] = 1
    /\ \E q \in 1..Len(X) : l_raw[q] = 2
    /\ \E q \in 1..Len(X) : L[i][q] # 0
    /\ \E q \in 1..Len(X) : L[i][q] = 0 /\ l_raw[q] # 0

\* C20 (as claimed): for every LF each entry of props lies in
\* [min_prop, max_prop] and each entry of accs in [min_acc, max_acc].
C20_RangesRespected ==
    (pc \in {"create_lfs", "raised"} /\ props # <<>>) =>
        \A c \in 1..Dim :
            /\ min_prop <= props[c] /\ props[c] <= max_prop
            /\ min_acc <= accs[c] /\ accs[c] <= max_acc

\* C24: for k = 2 create_lfs never raises on the labels create_labels
\* produced: every label is 1 or 2 (never 0, so flip is not called with 0),
\* props and accs have length 2 and are indexed at y - 1 in {0, 1}, whatever
\* clusters and LFs are drawn.
C24_NoRaiseForTwoClasses ==
    k_classes = 2 =>
        /\ pc # "raised"
        /\ err = ""
        /\ \A q \in 1..Len(Y) : Y[q] \in {1, 2}
        /\ props # <<>> =>
              /\ Len(props) = 2 /\ Len(accs) = 2
              /\ \A q \in 1..Len(Y) : Y[q] - 1 \in {0, 1} /\ Y[q] - 1 < Len(props)

\* both LFs have voted and a point labelled 2 received the flipped vote 1
C24_Witness ==
    /\ k_classes = 2
    /\ num_clusters = 2
    /\ pc = "lfs_returned"
    /\ num_lfs = 2
    /\ \E q \in 1..Len(X), j \in 1..num_lfs : Y[q] = 2 /\ L[q][j] = 1

(***************************************************************************)
(* select_conflicted_points step by step: one action per pass of its while *)
(* loop, entered with ranked_examples = rank_by_conflict(X, L).  pc, X, L,  *)
(* num_slices, centers, i and err are its arguments and locals (i counts   *)
(* from 0 as in the code); g_in holds the max_a from which create_slices   *)
(* computes min_dist = max_a * 1.25.                                       *)
(***************************************************************************)
\* num_slices asked of the selection, from none to more than can be apart
SelectSliceCounts == {0, 1, 2, 3}
\* max_a: 0 (min_dist = 0, no point is ever too close) and the max_a of the
\* slice runs
SelectMaxAs == {0, max_a}

SelectInit ==
    /\ pc = "select_conflicted_points"
    /\ \E n \in PointCounts, m \in LFCounts :
         /\ X = create_points(canvas, n)
         /\ L \in VoteMatrices(n, m)
    /\ ranked_examples = rank_by_conflict(X, L)
    /\ num_slices \in SelectSliceCounts
    /\ \E a \in SelectMaxAs : g_in = [max_a |-> a]
    /\ centers = <<>>
    /\ i = 0
    /\ err = ""
    /\ slice_source = "conflicts"
    /\ lf_regions = <<>> /\ min_slice_size = 0 /\ regions = <<>> /\ Z = <<>>
    /\ attempts = 0 /\ lfs_targeting_regions = NoList
    /\ g_op = "idle" /\ g_out = <<>>
    /\ SeedIdle
    /\ GenIdle

\* what no pass of the loop touches
SelectFrame ==
    UNCHANGED <<X, L, lf_regions, slice_source, num_slices, min_slice_size,
                regions, Z, attempts, lfs_targeting_regions, ranked_examples,
                geomVars, seedVars, genVars>>

\* any(dist(x, c) < min_dist for c in centers) for x = ranked_examples[i]
CandidateTooClose ==
    \E c \in Range(centers) :
        TooClose(ranked_examples[i + 1].x, c, g_in.max_a)

\* the pass "i += 1; continue" leaving i as it is
SelectSkip_NoAdvance ==
    /\ pc = "select_conflicted_points"
    /\ Len(centers) < num_slices
    /\ i < Len(ranked_examples)
    /\ CandidateTooClose
    /\ UNCHANGED <<pc, centers, i, err>>
    /\ SelectFrame

\* a pass that finds the candidate too close: i += 1; continue
SelectSkip ==
    /\ pc = "select_conflicted_points"
    /\ Len(centers) < num_slices
    /\ i < Len(ranked_examples)
    /\ CandidateTooClose
    /\ i' = i + 1
    /\ UNCHANGED <<pc, centers, err>>
    /\ SelectFrame

\* a pass that takes the candidate: centers.append(x), i stays
SelectAppend ==
    /\ pc = "select_conflicted_points"
    /\ Len(centers) < num_slices
    /\ i < Len(ranked_examples)
    /\ ~CandidateTooClose
    /\ centers' = Append(centers, ranked_examples[i + 1].x)
    /\ UNCHANGED <<pc, i, err>>
    /\ SelectFrame

\* ranked_examples[i] with i = len(ranked_examples): IndexError
SelectIndexError ==
    /\ pc = "select_conflicted_points"
    /\ Len(centers) < num_slices
    /\ i >= Len(ranked_examples)
    /\ pc' = "raised"
    /\ err' = "IndexError"
    /\ UNCHANGED <<centers, i>>
    /\ SelectFrame

\* the while condition fails: return centers
SelectReturn ==
    /\ pc = "select_conflicted_points"
    /\ Len(centers) >= num_slices
    /\ pc' = "returned"
    /\ UNCHANGED <<centers, i, err>>
    /\ SelectFrame

SelectNext ==
    \/ SelectSkip
    \/ SelectAppend
    \/ SelectIndexError
    \/ SelectReturn

\* the loop is the only thing the interpreter runs: a pass that can be taken
\* is taken
SpecSelect == SelectInit /\ [][SelectNext]_vars /\ WF_vars(SelectNext)

\* C23: select_conflicted_points ends: every pass of the loop either appends
\* a center or advances the rank index; it returns exactly num_slices
\* centers, or raises IndexError with fewer than num_slices centers once the
\* rank index has run past the last ranked point, each of which is then a
\* center or closer than min_dist to one.  It never returns fewer centers.
C23_SelectionEnds ==
    /\ <>(pc \in {"returned", "raised"})
    /\ [][pc = "select_conflicted_points" /\ pc' = "select_conflicted_points"
            => Len(centers') + i' = Len(centers) + i + 1]_vars
    /\ [](pc = "returned" => Len(centers) = num_slices /\ err = "")
    /\ [](pc = "raised" =>
            /\ err = "IndexError"
            /\ Len(centers) < num_slices
            /\ i = Len(X)
            /\ \A q \in 1..Len(X) :
                  \E c \in Range(centers) :
                     16 * ((X[q][1] - c[1]) * (X[q][1] - c[1])
                           + (X[q][2] - c[2]) * (X[q][2] - c[2]))
                        < 25 * g_in.max_a * g_in.max_a)
    /\ [](pc \in {"returned", "raised"} =>
            [err |-> err, centers |-> IF pc = "raised" THEN <<>> ELSE centers]
               = select_conflicted_points(X, L, num_slices, g_in.max_a))

\* the ranking is exhausted after a center was chosen
C23_Witness ==
    /\ pc = "raised"
    /\ err = "IndexError"
    /\ Len(centers) >= 1
    /\ i = Len(X)

====
